---- MODULE Spec2Model ----
(***************************************************************************)
(* Verification model of the embassy800c alarm panel firmware.             *)
(*                                                                         *)
(* The module holds slices of the program, each with its own               *)
(* specification over the same variables:                                  *)
(*   SpecStack    the two AlarmStack implementations, run side by side     *)
(*                (src/src/alarms_handler.rs, src/src/alarms.rs)           *)
(*   SpecCorr     Sim800::send_cmd_wait callers, RESPONSE_SIGNAL and the   *)
(*                reader's result lines (src/src/sim800.rs)                *)
(*   SpecRx       rx_runner, one byte per step (src/src/sim800.rs)         *)
(*   SpecLogic    logic_task with the modem driver as environment: events, *)
(*                replays, the watchdog, sender ticks (src/src/main.rs);   *)
(*                FairSpec adds the scheduler's fairness to runs in which  *)
(*                the alarm codes stop arriving                            *)
(*   SpecReport   logic_task with adc_monitor_task: samples and reports    *)
(*   SpecCadence  the sender tick over a whole alive period                *)
(* A slice's specification leaves the other slices' variables unchanged.   *)
(***************************************************************************)
EXTENDS Integers, Sequences, FiniteSets, TLC

\* ------------------------------------------------------------------------
\* Program constants (src/src/constants.rs)
\* ------------------------------------------------------------------------
ALARMS_CHANNELS_AMOUNT == 3
ALARMS_STACK_DEPTH == 3
ALARMS_MESSAGE_STRING_LENGTH == 3
DTMF_PACKET_LENGTH == 3
ALIVE_PERIOD_MINUTES == 120
USE_SMS == FALSE

\* alarms_handler.rs
FIRST_STACK_INDEX == 0
SECOND_STACK_INDEX == 1

Cols == 0..(ALARMS_CHANNELS_AMOUNT - 1)
Rows == 0..(ALARMS_STACK_DEPTH - 1)

\* A ChannelSnapshot: [bool; ALARMS_CHANNELS_AMOUNT]
Snapshot == [Cols -> BOOLEAN]

\* Snapshots are written <<b0, b1, b2>> and converted to 0-based arrays.
Snap(t) == [c \in Cols |-> t[c + 1]]

\* ------------------------------------------------------------------------
\* Characters. A char is a one-character string; Ascii gives `c as u8`.
\* ------------------------------------------------------------------------
AsciiTable ==
    { <<"0", 48>>, <<"1", 49>>, <<"2", 50>>, <<"3", 51>>, <<"4", 52>>,
      <<"5", 53>>, <<"6", 54>>, <<"7", 55>>, <<"8", 56>>, <<"9", 57>>,
      <<"#", 35>>, <<"*", 42>>, <<";", 59>>, <<"A", 65>>, <<"P", 80>> }

Ascii(c) == (CHOOSE p \in AsciiTable : p[1] = c)[2]

\* (n as u8) as char, for the codes the table holds
Chr(n) == (CHOOSE p \in AsciiTable : p[2] = n)[1]

\* u8::saturating_sub
saturating_sub(a, b) == IF a >= b THEN a - b ELSE 0

\* (digit >> row) & 1
BitOf(digit, row) == (digit \div (2 ^ row)) % 2

\* ------------------------------------------------------------------------
\* AlarmStack, alarms_handler.rs (the tracker main.rs uses)
\* ------------------------------------------------------------------------
\* AlarmStack::new
AlarmStack_new ==
    [stack |-> [r \in Rows |-> [c \in Cols |-> FALSE]], counter |-> 0]

\* The canonical eviction of alarms.rs: shift every row down by one, append.
alarms_push(s, alarms) ==
    IF s.counter < ALARMS_STACK_DEPTH
    THEN [stack |-> [s.stack EXCEPT ![s.counter] = alarms],
          counter |-> s.counter + 1]
    ELSE [stack |-> [r \in Rows |->
                        IF r = ALARMS_STACK_DEPTH - 1 THEN alarms
                        ELSE s.stack[r + 1]],
          counter |-> s.counter]

\* A push that evicts the oldest row, in place of the handler's.
push_fifo(s, alarms) == alarms_push(s, alarms)

\* AlarmTracker::push of alarms_handler.rs. On a full window row 0 is kept;
\* per channel, row 1 takes row 2's value where rows 0 and 1 agree; row 2
\* takes the new snapshot.
push(s, alarms) ==
    IF s.counter < ALARMS_STACK_DEPTH
    THEN [stack |-> [s.stack EXCEPT ![s.counter] = alarms],
          counter |-> s.counter + 1]
    ELSE LET first_row == s.stack[FIRST_STACK_INDEX]
             second == [idx \in Cols |->
                          IF first_row[idx] # s.stack[SECOND_STACK_INDEX][idx]
                          THEN s.stack[SECOND_STACK_INDEX][idx]
                          ELSE s.stack[ALARMS_STACK_DEPTH - 1][idx]]
         IN  [stack |-> [r \in Rows |->
                           IF r = ALARMS_STACK_DEPTH - 1 THEN alarms
                           ELSE IF r = SECOND_STACK_INDEX THEN second
                           ELSE s.stack[r]],
              counter |-> s.counter]

\* has_changes of alarms.rs: some row 1..D-1 differs from row 0.
alarms_has_changes(s) ==
    \E row \in 1..(ALARMS_STACK_DEPTH - 1) : s.stack[row] # s.stack[0]

\* has_changes of alarms_handler.rs: every storage row 1..D-1 is compared
\* with row 0, whatever the counter.
has_changes(s) ==
    \E col \in Cols : \E row \in 1..(ALARMS_STACK_DEPTH - 1) :
        s.stack[row][col] # s.stack[0][col]

\* The accumulator of export_bits for one column, rows 0..upto:
\* if stack[row][col] { acc |= 1 << row }
RECURSIVE ExportAccUpTo(_, _, _)
ExportAccUpTo(s, col, upto) ==
    IF upto < 0 THEN 0
    ELSE ExportAccUpTo(s, col, upto - 1)
         + (IF s.stack[upto][col] THEN 2 ^ upto ELSE 0)

ExportAcc(s, col) == ExportAccUpTo(s, col, ALARMS_STACK_DEPTH - 1)

\* The code export_bits returns: result[col] = (acc + b'0') as char
export_code(s) ==
    [i \in 1..ALARMS_MESSAGE_STRING_LENGTH |->
        IF (i - 1) \in Cols THEN Chr(ExportAcc(s, i - 1) + Ascii("0")) ELSE "0"]

\* An export that empties the window.
export_bits_empties(s) ==
    [stack |-> [s.stack EXCEPT ![FIRST_STACK_INDEX] = s.stack[ALARMS_STACK_DEPTH - 1]],
     counter |-> 0]

\* The stack export_bits leaves: row 0 := row D-1, counter := 1
export_bits(s) ==
    [stack |-> [s.stack EXCEPT ![FIRST_STACK_INDEX] = s.stack[ALARMS_STACK_DEPTH - 1]],
     counter |-> 1]

\* export_bits of alarms.rs (same code, same reset)
alarms_export_code(s) ==
    [i \in 1..ALARMS_MESSAGE_STRING_LENGTH |->
        IF (i - 1) \in Cols THEN Chr(ExportAcc(s, i - 1) + Ascii("0")) ELSE "0"]

alarms_export_bits(s) ==
    [stack |-> [s.stack EXCEPT ![0] = s.stack[ALARMS_STACK_DEPTH - 1]],
     counter |-> 1]

\* An import that reads the most significant bit as row 0.
import_bits_reversed(s, bits) ==
    [stack |-> [row \in Rows |-> [col \in Cols |->
                  BitOf(saturating_sub(Ascii(bits[col + 1]), Ascii("0")),
                        ALARMS_STACK_DEPTH - 1 - row) # 0]],
     counter |-> s.counter]

\* import_bits (both files): bits is a 1-based sequence of chars
import_bits(s, bits) ==
    [stack |-> [row \in Rows |-> [col \in Cols |->
                  BitOf(saturating_sub(Ascii(bits[col + 1]), Ascii("0")), row) # 0]],
     counter |-> s.counter]

alarms_import_bits(s, bits) ==
    [stack |-> [row \in Rows |-> [col \in Cols |->
                  BitOf(saturating_sub(Ascii(bits[col + 1]), Ascii("0")), row) # 0]],
     counter |-> s.counter]

\* A view that lists the newest row first.
get_stack_view_newest_first(s) ==
    [row \in Rows |-> s.stack[ALARMS_STACK_DEPTH - 1 - row]]

\* get_stack_view
get_stack_view(s) == s.stack

\* ------------------------------------------------------------------------
\* State
\* ------------------------------------------------------------------------
VARIABLES
    \* -- AlarmStack slice: both implementations fed the same calls
    hstack,        \* the AlarmStack of alarms_handler.rs
    astack,        \* the AlarmStack of alarms.rs
    fresh,         \* only pushes since AlarmStack::new
    npushed,       \* while fresh: pushes since new, counted up to D + 1
    lastPushed,    \* while fresh: the last (up to D) pushed snapshots, oldest first
    justExported,  \* the last call was export_bits
    afterExport,   \* an export happened and only pushes followed it
    baseline,      \* the row the last export kept as row 0
    diffSince,     \* a snapshot pushed since that export differs from baseline
    lastCode,      \* the codes the export_bits just called returned (handler, alarms.rs)
    lastSnap,      \* the most recently pushed snapshot, <<>> before the first push
    exportedFrom,  \* the two stacks the export_bits just called started from
    \* -- Correlator slice: Sim800 command methods, RESPONSE_SIGNAL, the modem
    signal,        \* RESPONSE_SIGNAL: NoSignal or the signalled CommandResult
    txLock,        \* Sim800.tx mutex: "free" or the caller holding it
    wire,          \* what was written to the UART and the modem has not answered yet
    caller,        \* per calling task: where it is in its Sim800 method
    \* -- Reader slice: rx_runner and the event channel
    rxwire,        \* bytes the modem has sent and rx_runner has not read yet
    line_buf,      \* line_buf[..pos]; pos is its length
    expecting_sms_body,
    pending_sms_header,
    events,        \* EVENT_CHANNEL, oldest first
    hdrSeen,       \* the last completed non-blank line and what rx_runner
                   \* did at it, when that line is a +CMT: header
    overflowed,    \* the line being assembled has overrun line_buf
    rxdone,        \* what the last rx_runner iteration completed: the line,
                   \* hdrSeen before it, the events it tried to send, the
                   \* result it signalled, the event queue before and after
    \* -- System slice: main.rs; hstack is STATE.alarm_stack
    outputs,           \* alarm_out_1..3: TRUE is high
    watchdog_deadline, \* "None" or "Some"
    wdDue,             \* the instant of watchdog_deadline has been reached
    senderDue,         \* the instant next_sender_tick has been reached
    dtmf_buffer,
    lpc,               \* where logic_task is: select, replay, send
    cmds,              \* CMD_CHANNEL, oldest first
    alive_countdown,   \* STATE.alive_countdown
    ticks,             \* sender ticks handled so far
    logicdone,         \* what logic_task did in the step just taken
    expiries,          \* watchdog expiries since the watchdog was last armed
    changedSinceTick,  \* 0, or n: since the last sender tick a pushed snapshot
                       \* differed from the exported baseline and n - 1
                       \* snapshots were pushed after it (counted up to D + 1)
    exportedOnce,      \* export_bits has run
    quiet,             \* has_changes() was false at every sender tick so far
    reports,           \* while quiet: the numbers of the ticks that reported
    codesSent,         \* alarm codes delivered, in runs that bound them
    unconfirmed,       \* the report command last issued and not yet confirmed
                       \* by CallExecuted(true), <<>> when there is none
    state_guard,       \* the task holding the MutexGuard of STATE, or "none"
    sinceEnded,        \* DTMF digits logic_task has buffered since it last
                       \* handled CallEnded, up to DTMF_PACKET_LENGTH
    now,               \* Instant::now(), in seconds since logic_task started
    next_sender_tick   \* logic_task's deadline of the next sender tick

stackVars == <<hstack, astack, fresh, npushed, lastPushed, justExported,
               afterExport, baseline, diffSince, lastCode, lastSnap, exportedFrom>>

corrVars == <<signal, txLock, wire, caller>>

rxVars == <<rxwire, line_buf, expecting_sms_body, pending_sms_header, hdrSeen, rxdone,
            overflowed>>

sysVars == <<outputs, watchdog_deadline, wdDue, senderDue, dtmf_buffer, lpc, cmds,
             alive_countdown, ticks, logicdone, expiries,
             changedSinceTick, exportedOnce, quiet, reports, codesSent,
             unconfirmed, state_guard, sinceEnded, now, next_sender_tick>>

vars == <<stackVars, corrVars, rxVars, events, sysVars>>

\* ------------------------------------------------------------------------
\* AlarmStack slice
\* ------------------------------------------------------------------------
\* The codes import_bits is called with in this slice.
ImportCodes == { <<"0", "0", "0">>, <<"5", "2", "7">>, <<"1", "A", "#">> }

NoCode == <<>>

StackInit ==
    /\ hstack = AlarmStack_new
    /\ astack = AlarmStack_new
    /\ fresh = TRUE
    /\ npushed = 0
    /\ lastPushed = <<>>
    /\ justExported = FALSE
    /\ afterExport = FALSE
    /\ baseline = Snap(<<FALSE, FALSE, FALSE>>)
    /\ diffSince = FALSE
    /\ lastCode = <<NoCode, NoCode>>
    /\ lastSnap = <<>>
    /\ exportedFrom = <<>>

KeepLast(q) ==
    IF Len(q) > ALARMS_STACK_DEPTH THEN Tail(q) ELSE q

\* push(&alarms) on both stacks
StackPush(alarms) ==
    /\ hstack' = push(hstack, alarms)
    /\ astack' = alarms_push(astack, alarms)
    /\ npushed' = IF fresh /\ npushed <= ALARMS_STACK_DEPTH
                  THEN npushed + 1 ELSE npushed
    /\ lastPushed' = IF fresh THEN KeepLast(Append(lastPushed, alarms))
                     ELSE lastPushed
    /\ justExported' = FALSE
    /\ diffSince' = (diffSince \/ (afterExport /\ alarms # baseline))
    /\ lastCode' = <<NoCode, NoCode>>
    /\ lastSnap' = alarms
    /\ exportedFrom' = <<>>
    /\ UNCHANGED <<fresh, afterExport, baseline>>
    /\ UNCHANGED <<corrVars, rxVars, events, sysVars>>

\* export_bits() on both stacks
StackExport ==
    /\ lastCode' = <<export_code(hstack), alarms_export_code(astack)>>
    /\ hstack' = export_bits(hstack)
    /\ astack' = alarms_export_bits(astack)
    /\ fresh' = FALSE
    /\ npushed' = 0
    /\ lastPushed' = <<>>
    /\ justExported' = TRUE
    /\ afterExport' = TRUE
    /\ baseline' = hstack.stack[ALARMS_STACK_DEPTH - 1]
    /\ diffSince' = FALSE
    /\ exportedFrom' = <<hstack, astack>>
    /\ UNCHANGED lastSnap
    /\ UNCHANGED <<corrVars, rxVars, events, sysVars>>

\* import_bits(bits) on both stacks
StackImport(bits) ==
    /\ hstack' = import_bits(hstack, bits)
    /\ astack' = alarms_import_bits(astack, bits)
    /\ fresh' = FALSE
    /\ npushed' = 0
    /\ lastPushed' = <<>>
    /\ justExported' = FALSE
    /\ afterExport' = FALSE
    /\ baseline' = Snap(<<FALSE, FALSE, FALSE>>)
    /\ diffSince' = FALSE
    /\ lastCode' = <<NoCode, NoCode>>
    /\ exportedFrom' = <<>>
    /\ UNCHANGED lastSnap
    /\ UNCHANGED <<corrVars, rxVars, events, sysVars>>

StackNext ==
    \/ \E alarms \in Snapshot : StackPush(alarms)
    \/ StackExport
    \/ \E bits \in ImportCodes : StackImport(bits)

\* ------------------------------------------------------------------------
\* Correlator slice: src/src/sim800.rs, Sim800 and RESPONSE_SIGNAL
\* ------------------------------------------------------------------------
\* The tasks that call Sim800's command methods.
Callers == {"A", "B"}

\* Writes the modem has not answered yet (the UART's backlog in this slice).
MaxWire == 2

\* A signalled result; `owner` and `live` say which caller's command the
\* modem answered and whether that send was still waiting for it then.
NoSignal == [res |-> "None", owner |-> "none", live |-> FALSE]
\* What a send returned; `mine`: the value answered this very command;
\* `signalled`: rx_runner signalled a result between this send's reset and
\* its return; `firstsig`: the first result it signalled in that interval,
\* kept for the final wait of send_sms.
NoRet == [res |-> "None", mine |-> FALSE, signalled |-> FALSE, firstsig |-> "None"]

\* init's commands, in order
InitCmds == <<"AT", "ATE0", "AT+CMEE=1", "AT+CLIP=1", "AT+CMGF=1", "AT+CNMI=2,2,0,0,0">>

Methods == {"init", "make_call", "hang_up", "send_sms"}

\* The command a method writes at a step.
CmdOf(method, step) ==
    CASE method = "init" -> InitCmds[step + 1]
      [] method = "make_call" -> "ATD"
      [] method = "hang_up" -> "AT+CHUP"
      [] method = "send_sms" -> IF step = 0 THEN "AT+CMGS" ELSE "body"

IdleCaller ==
    [pc |-> "idle", method |-> "none", step |-> 0, ret |-> NoRet, result |-> "none",
     seen |-> FALSE, firstsig |-> "None", log |-> <<>>, first |-> "None"]

CorrInit ==
    /\ signal = NoSignal
    /\ txLock = "free"
    /\ wire = <<>>
    /\ caller = [c \in Callers |-> IdleCaller]

CorrState == [signal |-> signal, txLock |-> txLock, wire |-> wire, caller |-> caller]

\* The answers still owed to caller c's earlier sends are no longer awaited.
Retire(st, c) ==
    [st EXCEPT
        !.wire = [i \in 1..Len(st.wire) |->
                    IF st.wire[i].owner = c
                    THEN [st.wire[i] EXCEPT !.live = FALSE] ELSE st.wire[i]],
        !.signal = IF st.signal.owner = c
                   THEN [st.signal EXCEPT !.live = FALSE] ELSE st.signal]

\* send_cmd_wait steps 1 and 2 up to the first suspension (also the body
\* phase of send_sms): RESPONSE_SIGNAL.reset(), then tx.lock().await, which
\* is taken at once when free, and the write starts.
BeginSend(st, c, step) ==
    LET st1 == [Retire(st, c) EXCEPT !.signal = NoSignal,
                                     !.caller[c].step = step,
                                     !.caller[c].ret = NoRet,
                                     !.caller[c].seen = FALSE,
                                     !.caller[c].firstsig = "None"]
    IN  IF st1.txLock = "free"
        THEN [st1 EXCEPT !.txLock = c, !.caller[c].pc = "writing"]
        ELSE [st1 EXCEPT !.caller[c].pc = "locking"]

\* The method returns `value` to its caller.
MethodReturn(st, c, value) ==
    [st EXCEPT !.caller[c].pc = "idle", !.caller[c].result = value,
               !.caller[c].seen = FALSE, !.caller[c].firstsig = "None"]

\* A resolution after which init goes on with its configuration commands
\* whatever the result of AT was.
Resolve_init_goes_on(st, c, sig) ==
    LET me == st.caller[c]
        st1 == [Retire(st, c) EXCEPT
                    !.caller[c].ret =
                        [res |-> sig.res, mine |-> (sig.owner = c /\ sig.live),
                         signalled |-> me.seen, firstsig |-> me.firstsig],
                    !.caller[c].first = IF me.step = 0 THEN sig.res ELSE me.first]
    IN  IF me.method = "init" /\ me.step + 1 < Len(InitCmds)
        THEN BeginSend(st1, c, me.step + 1)
        ELSE MethodReturn(st1, c, "true")

\* A send (send_cmd_wait, or the final wait of send_sms) resolved with
\* `sig`; the method goes on from there, up to its next suspension.
Resolve(st, c, sig) ==
    LET me == st.caller[c]
        st1 == [Retire(st, c) EXCEPT
                    !.caller[c].ret =
                        [res |-> sig.res, mine |-> (sig.owner = c /\ sig.live),
                         signalled |-> me.seen, firstsig |-> me.firstsig],
                    !.caller[c].first = IF me.step = 0 THEN sig.res ELSE me.first]
    IN  CASE me.method = "hang_up" -> MethodReturn(st1, c, "unit")
          [] me.method = "make_call" ->
                MethodReturn(st1, c, IF sig.res = "Ok" THEN "true" ELSE "false")
          [] me.method = "init" ->
                IF me.step = 0 /\ sig.res # "Ok"
                THEN MethodReturn(st1, c, "false")
                ELSE IF me.step + 1 < Len(InitCmds)
                     THEN BeginSend(st1, c, me.step + 1)
                     ELSE MethodReturn(st1, c, "true")
          [] me.method = "send_sms" ->
                IF me.step = 0
                THEN IF sig.res # "Prompt"
                     THEN MethodReturn(st1, c, "false")
                     ELSE BeginSend(st1, c, 1)
                ELSE MethodReturn(st1, c, IF sig.res = "Ok" THEN "true" ELSE "false")

\* with_timeout(.., RESPONSE_SIGNAL.wait()) is polled: a signalled value is
\* taken (and the slot emptied), otherwise the caller is suspended.
PollWait(st, c) ==
    IF st.signal # NoSignal
    THEN Resolve([st EXCEPT !.signal = NoSignal], c, st.signal)
    ELSE [st EXCEPT !.caller[c].pc = "waiting"]

SetCorr(st) ==
    /\ signal' = st.signal
    /\ txLock' = st.txLock
    /\ wire' = st.wire
    /\ caller' = st.caller
    /\ UNCHANGED <<stackVars, rxVars, events, sysVars>>

\* A task calls init / make_call / hang_up / send_sms.
CallMethod(c, method) ==
    /\ caller[c].pc = "idle"
    /\ SetCorr(BeginSend([CorrState EXCEPT !.caller[c].method = method,
                                           !.caller[c].result = "none",
                                           !.caller[c].log = <<>>,
                                           !.caller[c].first = "None"], c, 0))

\* tx.lock().await resumes once the mutex is free.
AcquireTx(c) ==
    /\ caller[c].pc = "locking"
    /\ txLock = "free"
    /\ SetCorr([CorrState EXCEPT !.txLock = c, !.caller[c].pc = "writing"])

\* tx.write(..).await completes: the bytes are on the wire. A command
\* releases the mutex and waits for its result; the SMS body is followed by
\* the write of 0x1A under the same lock.
WriteDone(c) ==
    /\ caller[c].pc = "writing"
    /\ Len(wire) < MaxWire
    /\ LET me == caller[c]
           cmd == CmdOf(me.method, me.step)
           st1 == [CorrState EXCEPT
                      !.wire = Append(wire, [owner |-> c, live |-> TRUE, cmd |-> cmd]),
                      !.caller[c].log = Append(me.log, cmd)]
       IN  IF cmd = "body"
           THEN SetCorr([st1 EXCEPT !.caller[c].pc = "writing_ctrlz"])
           ELSE SetCorr(PollWait([st1 EXCEPT !.txLock = "free"], c))

\* tx.write(&[0x1A]).await completes; the mutex is released, the final wait starts.
WriteCtrlZDone(c) ==
    /\ caller[c].pc = "writing_ctrlz"
    /\ Len(wire) < MaxWire
    /\ LET st1 == [CorrState EXCEPT
                      !.wire = Append(wire, [owner |-> c, live |-> TRUE, cmd |-> "0x1A"]),
                      !.caller[c].log = Append(caller[c].log, "0x1A"),
                      !.txLock = "free"]
       IN  SetCorr(PollWait(st1, c))

\* RESPONSE_SIGNAL.wait() resolves for a suspended caller: the value is taken.
TakeSignal(c) ==
    /\ caller[c].pc = "waiting"
    /\ signal # NoSignal
    /\ SetCorr(Resolve([CorrState EXCEPT !.signal = NoSignal], c, signal))

\* The timeout elapses with no value signalled: CommandResult::Timeout
\* (for the final wait of send_sms: the `_` arm).
TimeoutElapses(c) ==
    /\ caller[c].pc = "waiting"
    /\ signal = NoSignal
    /\ SetCorr(Resolve(CorrState, c, [res |-> "Timeout", owner |-> "none", live |-> FALSE]))

\* The modem answers the oldest unanswered write and rx_runner signals the
\* result: an OK or ERROR line, or the prompt byte after AT+CMGS. The text
\* of an SMS body is taken without an answer until its 0x1A.
ModemAnswers(res) ==
    /\ wire # <<>>
    /\ LET w == Head(wire)
       IN  IF w.cmd = "body"
           THEN /\ res = "Ok"
                /\ SetCorr([CorrState EXCEPT !.wire = Tail(wire)])
           ELSE /\ res \in (IF w.cmd = "AT+CMGS" THEN {"Prompt", "Error"}
                            ELSE {"Ok", "Error"})
                /\ SetCorr([CorrState EXCEPT
                              !.wire = Tail(wire),
                              !.signal = [res |-> res, owner |-> w.owner, live |-> w.live],
                              !.caller = [c \in Callers |->
                                  IF caller[c].pc = "idle" THEN caller[c]
                                  ELSE [caller[c] EXCEPT
                                          !.seen = TRUE,
                                          !.firstsig =
                                              IF /\ caller[c].firstsig = "None"
                                                 /\ caller[c].method = "send_sms"
                                                 /\ caller[c].step = 1
                                              THEN res
                                              ELSE caller[c].firstsig]]])

\* rx_runner reads a '>' byte with its line buffer empty and signals Prompt
\* (the prompt branch of the reader, seen from the Correlator).
PromptByte ==
    /\ signal' = [res |-> "Prompt", owner |-> "none", live |-> FALSE]
    /\ caller' = [c \in Callers |->
                    IF caller[c].pc = "idle" THEN caller[c]
                    ELSE [caller[c] EXCEPT
                            !.seen = TRUE,
                            !.firstsig =
                                IF /\ caller[c].firstsig = "None"
                                   /\ caller[c].method = "send_sms"
                                   /\ caller[c].step = 1
                                THEN "Prompt"
                                ELSE caller[c].firstsig]]
    /\ UNCHANGED <<txLock, wire>>
    /\ UNCHANGED <<stackVars, rxVars, events, sysVars>>

CorrNext ==
    \/ \E c \in Callers : \E m \in Methods : CallMethod(c, m)
    \/ \E c \in Callers : AcquireTx(c)
    \/ \E c \in Callers : WriteDone(c)
    \/ \E c \in Callers : WriteCtrlZDone(c)
    \/ \E c \in Callers : TakeSignal(c)
    \/ \E c \in Callers : TimeoutElapses(c)
    \/ \E res \in {"Ok", "Error", "Prompt"} : ModemAnswers(res)

\* ------------------------------------------------------------------------
\* Reader slice: src/src/sim800.rs, rx_runner and parse_quoted
\* ------------------------------------------------------------------------
MAX_PHONE_LENGTH == 20
SIM800_LINE_BUFFER_SIZE == 128
\* pending_sms_header's timestamp is a String<20>
TIMESTAMP_LENGTH == 20
\* Channel<CriticalSectionRawMutex, SimEvent, 4>
EVENT_CHANNEL_CAPACITY == 4

Quote == "\""

\* char::is_whitespace for the bytes the modem sends
IsWhitespace(c) == c \in {" ", "\t", "\r", "\n"}

RECURSIVE trim_start(_)
trim_start(str) ==
    IF str # <<>> /\ IsWhitespace(Head(str)) THEN trim_start(Tail(str)) ELSE str

RECURSIVE trim_end(_)
trim_end(str) ==
    IF str # <<>> /\ IsWhitespace(str[Len(str)])
    THEN trim_end(SubSeq(str, 1, Len(str) - 1)) ELSE str

\* str::trim
trim(str) == trim_end(trim_start(str))

\* str::starts_with
starts_with(str, prefix) ==
    Len(str) >= Len(prefix) /\ SubSeq(str, 1, Len(prefix)) = prefix

\* The byte 0xFF, which no UTF-8 text holds.
InvalidByte == "0xFF"

\* core::str::from_utf8(..).is_ok()
from_utf8_ok(bytes) == \A i \in 1..Len(bytes) : bytes[i] # InvalidByte

\* heapless String<N>::push: a char beyond the capacity is not stored
push_char(result, c, N) == IF Len(result) < N THEN Append(result, c) ELSE result

\* parse_quoted's loop from character i on; st is (current_idx, in_quote,
\* result), and `done` is set by the early return.
RECURSIVE parse_quoted_from(_, _, _, _, _)
parse_quoted_from(input, i, st, target_idx, N) ==
    IF i > Len(input) \/ st.done THEN st.result
    ELSE LET c == input[i]
             st1 == IF c = Quote
                    THEN IF st.in_quote
                         THEN IF st.current_idx = target_idx
                              THEN [st EXCEPT !.done = TRUE]
                              ELSE [st EXCEPT !.current_idx = st.current_idx + 1,
                                              !.in_quote = FALSE]
                         ELSE [st EXCEPT !.in_quote = TRUE,
                                         !.result = IF st.current_idx = target_idx
                                                    THEN <<>> ELSE st.result]
                    ELSE IF st.in_quote /\ st.current_idx = target_idx
                         THEN [st EXCEPT !.result = push_char(st.result, c, N)]
                         ELSE st
         IN  parse_quoted_from(input, i + 1, st1, target_idx, N)

\* parse_quoted::<N>(input, target_idx)
parse_quoted(input, target_idx, N) ==
    parse_quoted_from(input, 1,
        [current_idx |-> 0, in_quote |-> FALSE, result |-> <<>>, done |-> FALSE],
        target_idx, N)

\* Texts
S_OK == <<"O", "K">>
S_ERROR == <<"E", "R", "R", "O", "R">>
S_RING == <<"R", "I", "N", "G">>
S_CLIP == <<"+", "C", "L", "I", "P", ":">>
S_NO_CARRIER == <<"N", "O", " ", "C", "A", "R", "R", "I", "E", "R">>
S_CMT == <<"+", "C", "M", "T", ":">>
S_CALL_READY == <<"C", "a", "l", "l", " ", "R", "e", "a", "d", "y">>

\* SimEvent values
IncomingCall(num) == [type |-> "IncomingCall", number |-> num]
CallEnded == [type |-> "CallEnded"]
SystemReady == [type |-> "SystemReady"]
SmsReceived(num, ts, msg) ==
    [type |-> "SmsReceived", number |-> num, timestamp |-> ts, message |-> msg]

NoHeader == <<>>

\* The (number, timestamp) pair rx_runner keeps from a +CMT: line
SmsHeader(clean) ==
    <<parse_quoted(clean, 0, MAX_PHONE_LENGTH),
      parse_quoted(clean, 2, TIMESTAMP_LENGTH)>>

\* What rx_runner does with one completed, trimmed, non-empty line `clean`:
\* the events it try_sends, the result it signals ("None": nothing), and
\* the new multi-line state.
ClassifyLine(clean, expecting, pending) ==
    IF expecting
    THEN [send |-> IF pending # NoHeader
                   THEN <<SmsReceived(pending[1], pending[2], clean)>> ELSE <<>>,
          sig |-> "None", expecting |-> FALSE, pending |-> NoHeader]
    ELSE IF clean = S_OK
    THEN [send |-> <<>>, sig |-> "Ok", expecting |-> expecting, pending |-> pending]
    ELSE IF clean = S_ERROR
    THEN [send |-> <<>>, sig |-> "Error", expecting |-> expecting, pending |-> pending]
    ELSE IF clean = S_RING
    THEN [send |-> <<>>, sig |-> "None", expecting |-> expecting, pending |-> pending]
    ELSE IF starts_with(clean, S_CLIP)
    THEN [send |-> <<IncomingCall(parse_quoted(clean, 0, MAX_PHONE_LENGTH))>>,
          sig |-> "None", expecting |-> expecting, pending |-> pending]
    ELSE IF starts_with(clean, S_NO_CARRIER)
    THEN [send |-> <<CallEnded>>, sig |-> "None",
          expecting |-> expecting, pending |-> pending]
    ELSE IF starts_with(clean, S_CMT)
    THEN [send |-> <<>>, sig |-> "None", expecting |-> TRUE,
          pending |-> SmsHeader(clean)]
    ELSE IF starts_with(clean, S_CALL_READY)
    THEN [send |-> <<SystemReady>>, sig |-> "None",
          expecting |-> expecting, pending |-> pending]
    ELSE [send |-> <<>>, sig |-> "None", expecting |-> expecting, pending |-> pending]

\* A send that makes room by dropping the oldest event.
try_send_evicts(q, event) ==
    IF Len(q) < EVENT_CHANNEL_CAPACITY THEN Append(q, event)
    ELSE Append(Tail(q), event)

\* event_channel.try_send(event): queued when there is room, else discarded
try_send(q, event) ==
    IF Len(q) < EVENT_CHANNEL_CAPACITY THEN Append(q, event) ELSE q

\* The lines the modem sends in this slice, terminators included; the
\* prompt is its one byte.
L_OK == <<"O", "K", "\r", "\n">>
L_CMT ==
    <<"+", "C", "M", "T", ":", " ", "\"", "+", "1", "5", "5", "5", "\"",
      ",", "\"", "\"", ",", "\"", "2", "4", "/", "0", "1", "/", "0", "1",
      ",", "1", "2", ":", "0", "0", ":", "0", "0", "+", "0", "0", "\"",
      "\r", "\n">>
L_BODY == <<"1", "0", "1", ";", "\r", "\n">>
L_PROMPT == <<">">>
L_EMPTY == <<"\r", "\n">>

ModemLines == {L_OK, L_CMT, L_BODY, L_PROMPT, L_EMPTY}

\* A line of SIM800_LINE_BUFFER_SIZE + 3 bytes before its terminator, the
\* last two of them "OK"
L_LONG == [i \in 1..(SIM800_LINE_BUFFER_SIZE + 1) |-> "A"] \o L_OK

LongLines == {L_LONG, L_EMPTY}

\* The lines of the rule table: RING, a caller id, the end of a call, the
\* modem's ready notice, a final result and a line no rule matches
L_RING == S_RING \o L_EMPTY
L_CLIP == S_CLIP \o <<" ", "\"", "+", "1", "\"", ",", "1", "4", "5">> \o L_EMPTY
L_NO_CARRIER == S_NO_CARRIER \o L_EMPTY
L_CALL_READY == S_CALL_READY \o L_EMPTY
L_ERROR == S_ERROR \o L_EMPTY
L_UNMATCHED == <<"O", "K", "A", "Y">> \o L_EMPTY

RuleLines == {L_RING, L_CLIP, L_NO_CARRIER, L_CALL_READY, L_ERROR, L_UNMATCHED}

\* Lines with quoted fields: a caller id whose closing quote is missing and
\* an SMS header whose last quote is missing
L_CLIP_OPEN == S_CLIP \o <<" ", "\"", "+", "1">> \o L_EMPTY
L_CMT_OPEN ==
    S_CMT \o <<" ", "\"", "1", "\"", ",", "\"", "a", "\"", ",", "\"", "2">> \o L_EMPTY

QuoteLines == {L_CLIP, L_CLIP_OPEN, L_CMT_OPEN}

\* A line with a '>' after its first byte
L_GT == <<"A", ">", "\r", "\n">>

PromptLines == {L_PROMPT, L_GT, L_CMT}

NothingDone == [kind |-> "none"]

RxInit ==
    /\ rxwire = <<>>
    /\ line_buf = <<>>
    /\ expecting_sms_body = FALSE
    /\ pending_sms_header = NoHeader
    /\ hdrSeen = NoHeader
    /\ rxdone = NothingDone
    /\ overflowed = FALSE
    /\ events = <<>>

NotRx == <<stackVars, txLock, wire, caller, sysVars>>

\* The modem puts its next line on the serial link.
ModemSends(l) ==
    /\ rxwire = <<>>
    /\ rxwire' = l
    /\ UNCHANGED <<line_buf, expecting_sms_body, pending_sms_header, hdrSeen,
                   rxdone, overflowed, events, signal, NotRx>>

\* A prompt test that ignores the position in the line.
is_prompt_anywhere(b, pos) == b = ">"

\* if b == b'>' && pos == 0
is_prompt(b, pos) == b = ">" /\ pos = 0

\* One iteration of rx_runner's loop: ring.read of one byte and what follows.
RxByte ==
    /\ rxwire # <<>>
    /\ rxwire' = Tail(rxwire)
    /\ LET b == Head(rxwire)
           pos == Len(line_buf)
       IN  IF is_prompt(b, pos)
           THEN \* the prompt: signalled at once, nothing stored
                /\ signal' = [res |-> "Prompt", owner |-> "none", live |-> FALSE]
                /\ rxdone' = [kind |-> "prompt", overflowed |-> overflowed]
                /\ UNCHANGED <<line_buf, expecting_sms_body, pending_sms_header,
                               hdrSeen, events, overflowed>>
           ELSE IF b = "\n"
           THEN LET len == IF pos > 0 /\ line_buf[pos] = "\r" THEN pos - 1 ELSE pos
                    bytes == SubSeq(line_buf, 1, len)
                    clean == trim(bytes)
                IN  /\ line_buf' = <<>>
                    /\ overflowed' = FALSE
                    /\ IF from_utf8_ok(bytes) /\ clean # <<>>
                       THEN LET r == ClassifyLine(clean, expecting_sms_body,
                                                  pending_sms_header)
                            IN  /\ events' = IF r.send # <<>>
                                             THEN try_send(events, r.send[1]) ELSE events
                                /\ signal' = IF r.sig # "None"
                                             THEN [res |-> r.sig, owner |-> "none",
                                                   live |-> FALSE]
                                             ELSE signal
                                /\ expecting_sms_body' = r.expecting
                                /\ pending_sms_header' = r.pending
                                /\ hdrSeen' = IF starts_with(clean, S_CMT)
                                              THEN [line |-> clean,
                                                    armed |-> expecting_sms_body,
                                                    tried |-> r.send,
                                                    sig |-> r.sig]
                                              ELSE NoHeader
                                /\ rxdone' = [kind |-> "line", line |-> clean,
                                              hdr |-> hdrSeen, tried |-> r.send,
                                              sig |-> r.sig, before |-> events,
                                              after |-> events',
                                              overflowed |-> overflowed,
                                              armed |-> expecting_sms_body]
                       ELSE /\ rxdone' = [kind |-> "skipped"]
                            /\ UNCHANGED <<events, signal, expecting_sms_body,
                                           pending_sms_header, hdrSeen>>
           ELSE /\ line_buf' = IF pos < SIM800_LINE_BUFFER_SIZE
                               THEN Append(line_buf, b) ELSE <<>>
                /\ overflowed' = (overflowed \/ pos >= SIM800_LINE_BUFFER_SIZE)
                /\ rxdone' = NothingDone
                /\ UNCHANGED <<events, signal, expecting_sms_body,
                               pending_sms_header, hdrSeen>>
    /\ UNCHANGED NotRx

\* logic_task takes the oldest event: EVENT_CHANNEL.receive()
EventReceived ==
    /\ events # <<>>
    /\ events' = Tail(events)
    /\ UNCHANGED <<rxVars, signal, NotRx>>

RxNext ==
    \/ \E l \in ModemLines : ModemSends(l)
    \/ RxByte
    \/ EventReceived

\* ------------------------------------------------------------------------
\* System slice: src/src/main.rs. logic_task, adc_monitor_task and the
\* senders of CMD_CHANNEL; the modem driver and time are the environment.
\* ------------------------------------------------------------------------
\* Channel<CriticalSectionRawMutex, Command, 4>
CMD_CHANNEL_CAPACITY == 4

\* Command values
CmdInit == [type |-> "Init"]
CmdUpdateTime == [type |-> "UpdateTime"]
HandleIncomingCall(number) == [type |-> "HandleIncomingCall", phone_number |-> number]
CallAlarmWithDtmf(dtmf) == [type |-> "CallAlarmWithDtmf", dtmf |-> dtmf]
SendAlarmSms(code) == [type |-> "SendAlarmSms", code |-> code]

\* The events logic_task matches on
DtmfReceived(c) == [type |-> "DtmfReceived", c |-> c]
CallReceived(number) == [type |-> "CallReceived", number |-> number]
CallExecuted(success) == [type |-> "CallExecuted", success |-> success]

\* A prefix extraction that yields the whole input when the delimiter is
\* missing.
extract_or_whole(input, delimiter) ==
    LET at == {i \in 1..Len(input) : input[i] = delimiter}
    IN  IF at = {} THEN [some |-> TRUE, val |-> input]
        ELSE [some |-> TRUE,
              val |-> SubSeq(input, 1, (CHOOSE i \in at : \A j \in at : i <= j) - 1)]

\* str::split_once(delimiter).map(|(prefix, _)| prefix), one-char delimiter
extract_before_delimiter(input, delimiter) ==
    LET at == {i \in 1..Len(input) : input[i] = delimiter}
    IN  IF at = {} THEN [some |-> FALSE]
        ELSE [some |-> TRUE,
              val |-> SubSeq(input, 1, (CHOOSE i \in at : \A j \in at : i <= j) - 1)]

AllLow == [c \in Cols |-> FALSE]
AllHigh == [c \in Cols |-> TRUE]

AtSelect == [at |-> "select"]

\* Duration::from_secs(60), the period of the sender tick
SENDER_PERIOD_SECS == 60

\* A deadline restarted from the instant the tick is serviced.
advance_from_now(deadline, instant) == instant + SENDER_PERIOD_SECS

\* next_sender_tick += Duration::from_secs(60)
advance_deadline(deadline, instant) == deadline + SENDER_PERIOD_SECS

\* A clear that leaves the digits in the buffer.
clear_keeps(str) == str

\* String::clear (dtmf_buffer.clear())
clear(str) == <<>>

\* A lock scope whose guard outlives the block.
keep_guard(holder) == holder

\* The end of a `{ let mut state = STATE.lock().await; .. }` block: the guard
\* is dropped and STATE is free again.
drop_guard(holder) == "none"

\* An expiry branch that leaves the deadline in place.
watchdog_expiry_keeps_deadline(deadline) ==
    [outputs |-> AllLow, watchdog_deadline |-> deadline]

\* The watchdog branch: three set_low, watchdog_deadline = None
watchdog_expiry(deadline) ==
    [outputs |-> AllLow, watchdog_deadline |-> "None"]

\* The events the driver delivers in this slice: an SMS carrying the code
\* 401, an SMS whose code is too short, a DTMF digit, the end of a call, an
\* incoming call.
E_SMS_CODE == SmsReceived(<<"+", "1">>, <<>>, <<"4", "0", "1", ";">>)
E_SMS_SHORT == SmsReceived(<<"+", "1">>, <<>>, <<"4", "0", ";">>)
E_DTMF == DtmfReceived("4")
E_CALL_RECEIVED == CallReceived(<<"+", "1">>)

\* An SMS whose body has three characters and no ';'
E_SMS_NO_DELIMITER == SmsReceived(<<"+", "1">>, <<>>, <<"4", "0", "1">>)

\* The alarm inputs the driver delivers: valid and invalid SMS bodies, digits
InputEvents == {E_SMS_CODE, E_SMS_SHORT, E_SMS_NO_DELIMITER, E_DTMF}

\* The events of a call with DTMF digits
DtmfEvents == {E_DTMF, DtmfReceived("1"), CallEnded}

DriverEvents == {E_SMS_CODE, E_SMS_SHORT, E_DTMF, CallEnded, E_CALL_RECEIVED}

\* The outcomes of a report call the driver delivers
CallOutcomes == {CallExecuted(TRUE), CallExecuted(FALSE)}

\* The snapshots the ADC thresholds produce in this slice
AdcSnapshots == {Snap(<<FALSE, FALSE, FALSE>>), Snap(<<TRUE, FALSE, FALSE>>)}

\* Sender ticks a run of the system slice goes through
MaxTicks == 2

\* Events the driver lets wait in EVENT_CHANNEL before it delivers another
MaxPending == 1

\* Sender ticks of a run that follows the keep-alive cadence
CadenceTicks == 124

\* The one snapshot of a run without sensor change
CadenceSnapshots == {Snap(<<FALSE, FALSE, FALSE>>)}

\* Alarm codes that arrive in a run where the codes stop arriving
MaxCodes == 1

NoStep == [kind |-> "none"]

\* The tasks have been spawned and have run up to their first suspension:
\* sim800_task has queued Command::Init and Command::UpdateTime and is in
\* driver.run; the alarm outputs are high as hardware::init leaves them.
SysInit ==
    /\ outputs = AllHigh
    /\ watchdog_deadline = "None"
    /\ wdDue = FALSE
    /\ senderDue = FALSE
    /\ dtmf_buffer = <<>>
    /\ lpc = AtSelect
    /\ cmds = <<CmdInit, CmdUpdateTime>>
    /\ alive_countdown = 0
    /\ ticks = 0
    /\ logicdone = NoStep
    /\ expiries = 0
    /\ changedSinceTick = 0
    /\ exportedOnce = FALSE
    /\ quiet = TRUE
    /\ reports = {}
    /\ codesSent = 0
    /\ unconfirmed = <<>>
    /\ state_guard = "none"
    /\ sinceEnded = 0
    /\ now = 0
    /\ next_sender_tick = now + SENDER_PERIOD_SECS

stackGhosts == <<astack, fresh, npushed, lastPushed, justExported, afterExport,
                 baseline, diffSince, lastCode, lastSnap, exportedFrom>>

NotSys == <<stackGhosts, corrVars, rxVars>>

cadenceGhosts == <<ticks, quiet, reports>>

logicKeeps == <<codesSent, state_guard, now, next_sender_tick>>

\* CMD_CHANNEL.send(cmd).await in logic_task: queued at once when there is
\* room, else the task stays in the send.
LogicSends(cmd) ==
    IF Len(cmds) < CMD_CHANNEL_CAPACITY
    THEN cmds' = Append(cmds, cmd) /\ lpc' = AtSelect
    ELSE cmds' = cmds /\ lpc' = [at |-> "send", cmd |-> cmd]

\* play_received_alarms up to its first Timer::after: the code is imported
\* into a fresh AlarmStack and row 0 is put on the outputs.
StartReplay(alarm_str, src) ==
    LET matrix == get_stack_view(import_bits(AlarmStack_new, alarm_str))
    IN  /\ outputs' = matrix[0]
        /\ lpc' = [at |-> "replay", matrix |-> matrix, row |-> 0, src |-> src,
                   code |-> alarm_str]

\* select3 resolves with an event: Either3::First
LogicEvent ==
    /\ lpc = AtSelect
    /\ events # <<>>
    /\ events' = Tail(events)
    /\ LET event == Head(events)
       IN  CASE event.type = "SmsReceived" ->
                  LET alarm_str == extract_before_delimiter(event.message, ";")
                  IN  IF alarm_str.some
                         /\ Len(alarm_str.val) = ALARMS_MESSAGE_STRING_LENGTH
                      THEN StartReplay(alarm_str.val, "sms")
                           /\ UNCHANGED <<dtmf_buffer, cmds>>
                      ELSE UNCHANGED <<outputs, lpc, dtmf_buffer, cmds>>
             [] event.type = "DtmfReceived" ->
                  IF Len(dtmf_buffer) < DTMF_PACKET_LENGTH
                  THEN LET buf == Append(dtmf_buffer, event.c)
                       IN  /\ dtmf_buffer' = buf
                           /\ cmds' = cmds
                           /\ IF Len(buf) = DTMF_PACKET_LENGTH
                              THEN StartReplay(buf, "dtmf")
                              ELSE UNCHANGED <<outputs, lpc>>
                  ELSE UNCHANGED <<outputs, lpc, dtmf_buffer, cmds>>
             [] event.type = "CallEnded" ->
                  dtmf_buffer' = clear(dtmf_buffer) /\ UNCHANGED <<outputs, lpc, cmds>>
             [] event.type = "CallReceived" ->
                  LogicSends(HandleIncomingCall(event.number))
                  /\ UNCHANGED <<outputs, dtmf_buffer>>
             [] OTHER -> UNCHANGED <<outputs, lpc, dtmf_buffer, cmds>>
    /\ logicdone' = [kind |-> "event", event |-> Head(events)]
    /\ unconfirmed' = IF Head(events) = CallExecuted(TRUE) THEN <<>> ELSE unconfirmed
    /\ sinceEnded' =
          IF Head(events).type = "CallEnded" THEN 0
          ELSE IF /\ Head(events).type = "DtmfReceived"
                  /\ Len(dtmf_buffer) < DTMF_PACKET_LENGTH
                  /\ sinceEnded < DTMF_PACKET_LENGTH
               THEN sinceEnded + 1
               ELSE sinceEnded
    /\ UNCHANGED <<watchdog_deadline, wdDue, senderDue, alive_countdown, logicKeeps,
                   expiries, changedSinceTick, exportedOnce, cadenceGhosts>>
    /\ UNCHANGED <<hstack, NotSys>>

\* A Timer::after(3 s) of play_received_alarms ends: the next row goes to
\* the outputs, or the replay returns and its caller arms the watchdog (and
\* clears dtmf_buffer after a DTMF packet).
ReplayDwellEnds ==
    /\ lpc.at = "replay"
    /\ IF lpc.row < ALARMS_STACK_DEPTH - 1
       THEN /\ outputs' = lpc.matrix[lpc.row + 1]
            /\ lpc' = [lpc EXCEPT !.row = lpc.row + 1]
            /\ UNCHANGED <<watchdog_deadline, wdDue, dtmf_buffer, expiries>>
       ELSE /\ lpc' = AtSelect
            /\ watchdog_deadline' = "Some"
            /\ wdDue' = FALSE
            /\ expiries' = 0
            /\ dtmf_buffer' = IF lpc.src = "dtmf" THEN clear(dtmf_buffer)
                               ELSE dtmf_buffer
            /\ UNCHANGED outputs
    /\ logicdone' = [kind |-> "replay"]
    /\ UNCHANGED <<senderDue, cmds, alive_countdown, logicKeeps, changedSinceTick,
                   exportedOnce, cadenceGhosts, events, unconfirmed, sinceEnded>>
    /\ UNCHANGED <<hstack, NotSys>>

\* select3 resolves with the sender timer: Either3::Second
LogicTick ==
    /\ lpc = AtSelect
    /\ events = <<>>
    /\ senderDue
    /\ senderDue' = FALSE
    /\ state_guard = "none"
    /\ state_guard' = drop_guard("logic_task")
    /\ next_sender_tick' = advance_deadline(next_sender_tick, now)
    /\ UNCHANGED now
    /\ LET tick == alive_countdown <= 0
           changed == has_changes(hstack)
           report == changed \/ tick
           code == export_code(hstack)
           countdown == IF report THEN ALIVE_PERIOD_MINUTES + 1 ELSE alive_countdown
           cmd == IF USE_SMS THEN SendAlarmSms(code) ELSE CallAlarmWithDtmf(code)
       IN  /\ hstack' = IF report THEN export_bits(hstack) ELSE hstack
           /\ alive_countdown' = IF ~tick THEN countdown - 1 ELSE countdown
           /\ IF report THEN LogicSends(cmd) ELSE UNCHANGED <<cmds, lpc>>
           /\ unconfirmed' = IF report THEN cmd ELSE unconfirmed
           /\ UNCHANGED sinceEnded
           /\ exportedOnce' = (exportedOnce \/ report)
           /\ quiet' = (quiet /\ ~changed)
           /\ reports' = IF quiet /\ ~changed
                         THEN (IF report THEN reports \cup {ticks + 1} ELSE reports)
                         ELSE {}
           /\ logicdone' = [kind |-> "tick", no |-> ticks + 1,
                            changed |-> changedSinceTick,
                            countdown |-> alive_countdown, stack |-> hstack,
                            report |-> report]
    /\ ticks' = ticks + 1
    /\ changedSinceTick' = 0
    /\ UNCHANGED <<outputs, watchdog_deadline, wdDue, dtmf_buffer, codesSent,
                   expiries, events>>
    /\ UNCHANGED NotSys

\* select3 resolves with the watchdog timer: Either3::Third
LogicWatchdog ==
    /\ lpc = AtSelect
    /\ events = <<>>
    /\ ~senderDue
    /\ watchdog_deadline = "Some"
    /\ wdDue
    /\ LET r == watchdog_expiry(watchdog_deadline)
       IN  /\ outputs' = r.outputs
           /\ watchdog_deadline' = r.watchdog_deadline
    /\ expiries' = IF expiries < 2 THEN expiries + 1 ELSE expiries
    /\ logicdone' = [kind |-> "watchdog", was |-> outputs]
    /\ UNCHANGED <<wdDue, senderDue, dtmf_buffer, lpc, cmds, alive_countdown, logicKeeps,
                   changedSinceTick, exportedOnce, cadenceGhosts, events, unconfirmed, sinceEnded>>
    /\ UNCHANGED <<hstack, NotSys>>

\* The send logic_task is suspended in finds room in CMD_CHANNEL.
SendCompletes ==
    /\ lpc.at = "send"
    /\ Len(cmds) < CMD_CHANNEL_CAPACITY
    /\ cmds' = Append(cmds, lpc.cmd)
    /\ lpc' = AtSelect
    /\ logicdone' = [kind |-> "sent"]
    /\ UNCHANGED <<outputs, watchdog_deadline, wdDue, senderDue, dtmf_buffer,
                   alive_countdown, logicKeeps, expiries, changedSinceTick,
                   exportedOnce, cadenceGhosts, events, unconfirmed, sinceEnded>>
    /\ UNCHANGED <<hstack, NotSys>>

\* What a step of another task or of the environment leaves alone
EnvKeeps ==
    /\ logicdone' = NoStep
    /\ UNCHANGED <<outputs, watchdog_deadline, dtmf_buffer, lpc, alive_countdown,
                   expiries, exportedOnce, cadenceGhosts, unconfirmed, sinceEnded,
                   now, next_sender_tick>>
    /\ UNCHANGED NotSys

\* Time reaches next_sender_tick; a run goes through at most `cap` ticks.
MinuteElapses(cap) ==
    /\ ~senderDue
    /\ ticks < cap
    /\ senderDue' = TRUE
    /\ EnvKeeps
    /\ UNCHANGED <<wdDue, cmds, logicKeeps, changedSinceTick, events, hstack>>

\* The instants a run of the clock slice goes through
MaxNow == 200

\* The amounts of time that pass in one step of the clock slice
ClockSteps == {20, 70}

\* Time passes, whatever logic_task is doing.
TimePasses(d) ==
    /\ now + d <= MaxNow
    /\ now' = now + d
    /\ UNCHANGED <<outputs, watchdog_deadline, wdDue, senderDue, dtmf_buffer, lpc, cmds,
                   alive_countdown, ticks, logicdone, expiries, changedSinceTick,
                   exportedOnce, quiet, reports, codesSent, unconfirmed, state_guard,
                   sinceEnded, next_sender_tick, events, hstack>>
    /\ UNCHANGED NotSys

\* Timer::at(next_sender_tick) is ready once the deadline has been reached.
SenderTimerFires ==
    /\ now >= next_sender_tick
    /\ MinuteElapses(MaxTicks)

\* Time reaches the watchdog deadline.
WatchdogDeadlinePasses ==
    /\ watchdog_deadline = "Some"
    /\ ~wdDue
    /\ wdDue' = TRUE
    /\ EnvKeeps
    /\ UNCHANGED <<senderDue, cmds, logicKeeps, changedSinceTick, events, hstack>>

\* adc_monitor_task: one sample of the three inputs pushed under the lock
AdcSample(bools) ==
    /\ state_guard = "none"
    /\ state_guard' = drop_guard("adc_monitor_task")
    /\ hstack' = push(hstack, bools)
    /\ changedSinceTick' =
          IF changedSinceTick = 0
          THEN (IF exportedOnce /\ bools # hstack.stack[FIRST_STACK_INDEX]
                THEN 1 ELSE 0)
          ELSE IF changedSinceTick <= ALARMS_STACK_DEPTH
               THEN changedSinceTick + 1 ELSE changedSinceTick
    /\ EnvKeeps
    /\ UNCHANGED <<wdDue, senderDue, cmds, codesSent, events>>

\* system_monitor_task: Command::UpdateTime when its period ends
MonitorSends ==
    /\ Len(cmds) < CMD_CHANNEL_CAPACITY
    /\ cmds' = Append(cmds, CmdUpdateTime)
    /\ EnvKeeps
    /\ UNCHANGED <<wdDue, senderDue, logicKeeps, changedSinceTick, events, hstack>>

\* The driver takes the oldest command (driver.run, CMD_CHANNEL.receiver()).
DriverTakesCommand ==
    /\ cmds # <<>>
    /\ cmds' = Tail(cmds)
    /\ EnvKeeps
    /\ UNCHANGED <<wdDue, senderDue, logicKeeps, changedSinceTick, events, hstack>>

\* The driver puts an event into EVENT_CHANNEL (driver.run, its sender).
Deliver(event) ==
    /\ Len(events) < EVENT_CHANNEL_CAPACITY
    /\ Len(events) < MaxPending
    /\ events' = Append(events, event)
    /\ EnvKeeps
    /\ UNCHANGED <<wdDue, senderDue, cmds, changedSinceTick, hstack, state_guard>>

\* The driver delivers an event.
DriverSends(event) == Deliver(event) /\ UNCHANGED codesSent

\* The driver delivers one of the last alarm codes that arrive.
DriverSendsCode(event) ==
    /\ codesSent < MaxCodes
    /\ codesSent' = codesSent + 1
    /\ Deliver(event)

\* logic_task with the driver: events, replays, the watchdog, sender ticks
LogicNext ==
    \/ LogicEvent
    \/ ReplayDwellEnds
    \/ LogicTick
    \/ LogicWatchdog
    \/ SendCompletes
    \/ MinuteElapses(MaxTicks)
    \/ WatchdogDeadlinePasses
    \/ DriverTakesCommand
    \/ \E event \in DriverEvents : DriverSends(event)

\* logic_task with adc_monitor_task: samples, sender ticks, reports
ReportNext ==
    \/ LogicTick
    \/ SendCompletes
    \/ MinuteElapses(MaxTicks)
    \/ \E bools \in AdcSnapshots : AdcSample(bools)
    \/ MonitorSends
    \/ DriverTakesCommand

Init == StackInit /\ CorrInit /\ RxInit /\ SysInit

\* Runs without sensor change: sender ticks and the command queue
CadenceNext ==
    \/ LogicTick
    \/ SendCompletes
    \/ MinuteElapses(CadenceTicks)
    \/ \E bools \in CadenceSnapshots : AdcSample(bools)
    \/ MonitorSends
    \/ DriverTakesCommand

\* Runs in which alarm codes stop arriving
StoppingNext ==
    \/ LogicEvent
    \/ ReplayDwellEnds
    \/ LogicTick
    \/ LogicWatchdog
    \/ SendCompletes
    \/ MinuteElapses(MaxTicks)
    \/ WatchdogDeadlinePasses
    \/ DriverTakesCommand
    \/ DriverSendsCode(E_SMS_CODE)
    \/ DriverSends(E_CALL_RECEIVED)

\* logic_task with the outcomes of its report calls
RetryNext ==
    \/ LogicEvent
    \/ LogicTick
    \/ SendCompletes
    \/ MinuteElapses(MaxTicks)
    \/ MonitorSends
    \/ DriverTakesCommand
    \/ \E event \in CallOutcomes : DriverSends(event)

\* logic_task with the alarm inputs: SMS bodies, DTMF digits, replays
InputNext ==
    \/ LogicEvent
    \/ ReplayDwellEnds
    \/ LogicWatchdog
    \/ WatchdogDeadlinePasses
    \/ \E event \in InputEvents : DriverSends(event)

\* logic_task with adc_monitor_task on STATE: samples, ticks, sends, replays
LockNext ==
    \/ LogicEvent
    \/ ReplayDwellEnds
    \/ LogicTick
    \/ SendCompletes
    \/ MinuteElapses(MaxTicks)
    \/ MonitorSends
    \/ DriverTakesCommand
    \/ \E bools \in AdcSnapshots : AdcSample(bools)
    \/ DriverSendsCode(E_SMS_CODE)

\* init and the reader's results, with adc_monitor_task and logic_task's
\* replay and watchdog running beside them
HandshakeNext ==
    \/ CallMethod("A", "init")
    \/ \E c \in Callers : WriteDone(c)
    \/ \E c \in Callers : TakeSignal(c)
    \/ \E c \in Callers : TimeoutElapses(c)
    \/ \E res \in {"Ok", "Error"} : ModemAnswers(res)
    \/ PromptByte
    \/ AdcSample(Snap(<<TRUE, FALSE, FALSE>>))
    \/ DriverSendsCode(E_SMS_CODE)
    \/ LogicEvent
    \/ ReplayDwellEnds
    \/ WatchdogDeadlinePasses
    \/ LogicWatchdog

\* logic_task with the digits and the ends of calls
DtmfNext ==
    \/ LogicEvent
    \/ ReplayDwellEnds
    \/ LogicWatchdog
    \/ WatchdogDeadlinePasses
    \/ \E event \in DtmfEvents : DriverSends(event)

\* logic_task against the clock: ticks serviced at any later instant,
\* events and replays in between
ClockNext ==
    \/ \E d \in ClockSteps : TimePasses(d)
    \/ SenderTimerFires
    \/ LogicTick
    \/ LogicEvent
    \/ ReplayDwellEnds
    \/ DriverTakesCommand
    \/ DriverSendsCode(E_SMS_CODE)

SpecLogic == Init /\ [][LogicNext]_vars

SpecClock == Init /\ [][ClockNext]_vars

SpecDtmf == Init /\ [][DtmfNext]_vars

SpecHandshake == Init /\ [][HandshakeNext]_vars

SpecLock == Init /\ [][LockNext]_vars

SpecInput == Init /\ [][InputNext]_vars

SpecRetry == Init /\ [][RetryNext]_vars

SpecCadence == Init /\ [][CadenceNext]_vars

\* The executor runs every task that can run, timers fire, and the driver
\* keeps taking commands.
FairSpec ==
    /\ Init /\ [][StoppingNext]_vars
    /\ WF_vars(LogicEvent) /\ WF_vars(ReplayDwellEnds) /\ WF_vars(LogicTick)
    /\ WF_vars(LogicWatchdog) /\ WF_vars(SendCompletes)
    /\ WF_vars(MinuteElapses(MaxTicks)) /\ WF_vars(WatchdogDeadlinePasses)
    /\ WF_vars(DriverTakesCommand)

SpecReport == Init /\ [][ReportNext]_vars

SpecStack == Init /\ [][StackNext]_vars

SpecCorr == Init /\ [][CorrNext]_vars

\* rx_runner fed with a line longer than line_buf
RxLongNext ==
    \/ \E l \in LongLines : ModemSends(l)
    \/ RxByte

\* rx_runner fed with '>' bytes at the start of a line and inside a line
RxPromptNext ==
    \/ \E l \in PromptLines : ModemSends(l)
    \/ RxByte
    \/ EventReceived

\* rx_runner fed with the lines of the rule table
RxRulesNext ==
    \/ \E l \in RuleLines : ModemSends(l)
    \/ RxByte
    \/ EventReceived

\* rx_runner fed with lines whose quoted fields are complete or cut short
RxQuotesNext ==
    \/ \E l \in QuoteLines : ModemSends(l)
    \/ RxByte
    \/ EventReceived

SpecRx == Init /\ [][RxNext]_vars

SpecRxQuotes == Init /\ [][RxQuotesNext]_vars

SpecRxRules == Init /\ [][RxRulesNext]_vars

SpecRxPrompt == Init /\ [][RxPromptNext]_vars

SpecRxLong == Init /\ [][RxLongNext]_vars

\* The window of alarms.rs is the last D pushes (checked beside C1).
AlarmsFifoWindow ==
    (fresh /\ npushed >= ALARMS_STACK_DEPTH + 1) =>
        \A r \in Rows : astack.stack[r] = lastPushed[r + 1]

C2_UnchangedAfterExport ==
    justExported => (~has_changes(hstack) /\ ~alarms_has_changes(astack))

\* C3: after an export and any pushes since, has_changes() is true exactly
\* when some snapshot pushed since the export differs from the baseline row
\* the export kept (both implementations).
C3_ChangedIffDiffers ==
    afterExport => /\ (has_changes(hstack) <=> diffSince)
                   /\ (alarms_has_changes(astack) <=> diffSince)

\* A caller's command is outstanding from the start of its write until its
\* wait resolves (a result or the timeout).
Outstanding(c) == caller[c].pc \in {"writing", "writing_ctrlz", "waiting"}

\* C4: with concurrent callers at most one command is outstanding: no caller
\* writes while another caller's command still waits for its result.
C4_SingleInFlight ==
    \A a \in Callers : \A b \in Callers :
        (a # b /\ caller[a].pc = "waiting") => ~Outstanding(b)

\* C5: a result (Ok, Error, Prompt) returned by a send is the modem's answer
\* to that same command, never the answer to another command.
C5_OwnResult ==
    \A c \in Callers :
        caller[c].ret.res \in {"Ok", "Error", "Prompt"} => caller[c].ret.mine

\* ------------------------------------------------------------------------
\* Reader: SMS pairing
\* ------------------------------------------------------------------------
\* Position of the k-th quote character of a line
NthQuote(line, k) ==
    CHOOSE p \in 1..Len(line) :
        /\ line[p] = Quote
        /\ Cardinality({i \in 1..p : line[i] = Quote}) = k

\* The n-th quoted field of a line as the text between its quotes
QuotedField(line, n) ==
    SubSeq(line, NthQuote(line, 2 * n + 1) + 1, NthQuote(line, 2 * n + 2) - 1)

\* rx_runner has just completed the non-blank line that follows a +CMT: line
BodyAfterHeader == rxdone.kind = "line" /\ rxdone.hdr # NoHeader

\* C6: a +CMT: line immediately followed by a non-empty body line puts
\* exactly one SmsReceived event on the queue, carrying quoted fields 0 and 2
\* of the header and the body line; no other event and no Correlator result
\* is produced for the two lines.
C6_SmsPairing ==
    BodyAfterHeader =>
        /\ rxdone.hdr.tried = <<>> /\ rxdone.hdr.sig = "None"
        /\ rxdone.sig = "None"
        /\ rxdone.after =
              Append(rxdone.before,
                     SmsReceived(QuotedField(rxdone.hdr.line, 0),
                                 QuotedField(rxdone.hdr.line, 2), rxdone.line))

\* The pairing holds for a header completed while the expecting-body flag
\* is clear: the body line makes rx_runner try_send exactly one SmsReceived
\* with quoted fields 0 and 2 of the header and the trimmed body line, which
\* is queued when the queue holds fewer than 4 events and discarded
\* otherwise; nothing else is sent or signalled for the two lines.
SmsPairingFromIdle ==
    (BodyAfterHeader /\ ~rxdone.hdr.armed) =>
        LET sms == SmsReceived(QuotedField(rxdone.hdr.line, 0),
                               QuotedField(rxdone.hdr.line, 2), rxdone.line)
        IN  /\ rxdone.hdr.tried = <<>> /\ rxdone.hdr.sig = "None"
            /\ rxdone.sig = "None"
            /\ rxdone.tried = <<sms>>
            /\ rxdone.after = IF Len(rxdone.before) < EVENT_CHANNEL_CAPACITY
                              THEN Append(rxdone.before, sms)
                              ELSE rxdone.before

\* ------------------------------------------------------------------------
\* logic_task: watchdog, keep-alive cadence, change reports
\* ------------------------------------------------------------------------
\* C7: once a replay has armed the watchdog, its expiry sets the three alarm
\* outputs low and watchdog_deadline to None, and it happens at most once
\* until a later replay arms the watchdog again.
C7_WatchdogOnce ==
    /\ expiries <= 1
    /\ logicdone.kind = "watchdog" =>
          (outputs = AllLow /\ watchdog_deadline = "None" /\ expiries = 1)

\* The watchdog branch has just run with an output high.
C7_Witness == logicdone.kind = "watchdog" /\ logicdone.was # AllLow

\* With the driver taking commands, a deadline that has been reached leads
\* to the expiry branch unless another event arrives first.
WatchdogExpiryHappens ==
    (watchdog_deadline = "Some" /\ wdDue)
        ~> ((outputs = AllLow /\ watchdog_deadline = "None") \/ events # <<>>)

\* C8: when alarm codes stop arriving, no alarm output stays high forever:
\* each output is low again and again.
C8_OutputsEventuallyLow ==
    /\ []<>(~outputs[0])
    /\ []<>(~outputs[1])
    /\ []<>(~outputs[2])

\* C9: without sensor change, counting sender ticks from 1, a report is
\* issued on tick 1 and on tick ALIVE_PERIOD_MINUTES + 1 and on no tick in
\* between.
C9_AliveCadence ==
    quiet =>
        \A k \in 1..ticks :
            k <= ALIVE_PERIOD_MINUTES + 1 =>
                (k \in reports <=> (k = 1 \/ k = ALIVE_PERIOD_MINUTES + 1))

\* The cadence of the code: without sensor change the reports are
\* ALIVE_PERIOD_MINUTES + 2 ticks apart, starting at tick 1.
AliveCadenceOfCode ==
    quiet =>
        \A k \in 1..ticks :
            k \in reports <=> ((k - 1) % (ALIVE_PERIOD_MINUTES + 2) = 0)

\* C10: when a snapshot pushed since the last sender tick differs from the
\* baseline the last export kept, the next sender tick exports the code and
\* sends the report command with it (queued, or held by the suspended send
\* when CMD_CHANNEL is full), whatever alive_countdown is and whatever was
\* pushed afterwards.
C10_ChangeReportedNextTick ==
    (logicdone.kind = "tick" /\ logicdone.changed > 0) =>
        LET cmd == CallAlarmWithDtmf(export_code(logicdone.stack))
        IN  /\ hstack = export_bits(logicdone.stack)
            /\ \/ lpc = AtSelect /\ cmds # <<>> /\ cmds[Len(cmds)] = cmd
               \/ lpc = [at |-> "send", cmd |-> cmd]

\* A tick with the countdown running, after a differing snapshot was
\* followed by at least D snapshots, the latest equal to the baseline.
C10_Witness ==
    /\ logicdone.kind = "tick"
    /\ logicdone.changed = ALARMS_STACK_DEPTH + 1
    /\ logicdone.countdown > 0
    /\ logicdone.stack.stack[ALARMS_STACK_DEPTH - 1]
          = logicdone.stack.stack[FIRST_STACK_INDEX]
    /\ lpc = AtSelect

\* ------------------------------------------------------------------------
\* AlarmStack: code round trip, export, has_changes, window length
\* ------------------------------------------------------------------------
\* export_bits has just been called on full windows
ExportedFull ==
    /\ exportedFrom # <<>>
    /\ exportedFrom[1].counter = ALARMS_STACK_DEPTH
    /\ exportedFrom[2].counter = ALARMS_STACK_DEPTH

\* C11: for a full window of D rows, import_bits of the code export_bits
\* returned, on a fresh AlarmStack, gives back the same D rows, row by row
\* and channel by channel, in both implementations.
C11_RoundTrip ==
    ExportedFull =>
        /\ get_stack_view(import_bits(AlarmStack_new, lastCode[1]))
              = exportedFrom[1].stack
        /\ alarms_import_bits(AlarmStack_new, lastCode[2]).stack
              = exportedFrom[2].stack

\* A full window whose three rows differ from each other has been exported.
C11_Witness ==
    /\ ExportedFull
    /\ exportedFrom[1].stack[0] # exportedFrom[1].stack[1]
    /\ exportedFrom[1].stack[1] # exportedFrom[1].stack[2]
    /\ exportedFrom[1].stack[0] # exportedFrom[1].stack[2]
    /\ lastCode[1] = <<"1", "2", "4">>

\* ------------------------------------------------------------------------
\* logic_task: report delivery
\* ------------------------------------------------------------------------
\* logic_task has just handled CallExecuted(false) while the report command
\* it issued is unconfirmed and the driver has taken it from CMD_CHANNEL.
ReportFailed ==
    /\ logicdone.kind = "event"
    /\ logicdone.event = CallExecuted(FALSE)
    /\ unconfirmed # <<>>
    /\ \A i \in 1..Len(cmds) : cmds[i] # unconfirmed

\* C12: a call report that failed is not abandoned: after CallExecuted(false)
\* logic_task holds the same call command, in its backoff wait or in the
\* send that repeats it, until CallExecuted(true) arrives.
C12_RetryUntilConfirmed ==
    ReportFailed => (lpc.at \in {"backoff", "send"} /\ lpc.cmd = unconfirmed)

\* ------------------------------------------------------------------------
\* logic_task: inputs that carry no alarm code
\* ------------------------------------------------------------------------
\* The body has no ';', or the text before its first ';' is not exactly
\* ALARMS_MESSAGE_STRING_LENGTH characters long.
BodyWithoutCode(message) ==
    \/ \A i \in 1..Len(message) : message[i] # ";"
    \/ \E i \in 1..Len(message) :
          /\ message[i] = ";"
          /\ \A j \in 1..(i - 1) : message[j] # ";"
          /\ i - 1 # ALARMS_MESSAGE_STRING_LENGTH

\* The event at the head of EVENT_CHANNEL is an SMS without a code, or a
\* digit that leaves fewer than DTMF_PACKET_LENGTH digits buffered.
HeadCarriesNoCode ==
    /\ events # <<>>
    /\ \/ Head(events).type = "SmsReceived" /\ BodyWithoutCode(Head(events).message)
       \/ /\ Head(events).type = "DtmfReceived"
          /\ Len(dtmf_buffer) + 1 < DTMF_PACKET_LENGTH

\* C13: when logic_task takes an SMS whose body has no ';' or whose prefix is
\* not three characters long, or a DTMF digit that leaves fewer than
\* DTMF_PACKET_LENGTH digits buffered, no output changes, no replay starts
\* and watchdog_deadline stays as it was.
C13_NoCodeNoEffect ==
    [][(HeadCarriesNoCode /\ events' = Tail(events))
         => /\ outputs' = outputs
            /\ watchdog_deadline' = watchdog_deadline
            /\ lpc' = lpc]_vars

\* After a replay left an output high and armed the watchdog, an SMS without
\* ';' has been handled with a digit short of a packet in the buffer.
C13_Witness ==
    /\ logicdone.kind = "event"
    /\ logicdone.event = E_SMS_NO_DELIMITER
    /\ watchdog_deadline # "None"
    /\ outputs # AllLow
    /\ Len(dtmf_buffer) = DTMF_PACKET_LENGTH - 1

\* ------------------------------------------------------------------------
\* STATE: the lock scope of the tick branch
\* ------------------------------------------------------------------------
\* logic_task is suspended in CMD_CHANNEL.send or in a dwell of a replay.
LogicSuspended == lpc.at \in {"send", "replay"}

\* C14: while logic_task is suspended in CMD_CHANNEL.send or in the dwell of
\* a replay no task holds the guard of STATE: the tick branch sends after its
\* lock scope has ended, so adc_monitor_task's lock for push is granted.
C14_NoLockWhileSuspended ==
    LogicSuspended => state_guard = "none"

\* logic_task waits in CMD_CHANNEL.send on a full queue and adc_monitor_task
\* has pushed a snapshot since the tick that exported.
C14_Witness ==
    /\ lpc.at = "send"
    /\ Len(cmds) = CMD_CHANNEL_CAPACITY
    /\ changedSinceTick >= 1
    /\ state_guard = "none"

\* ------------------------------------------------------------------------
\* rx_runner: final result lines
\* ------------------------------------------------------------------------
\* C15: a processed line that is exactly OK or ERROR is signalled to the
\* Correlator as Ok or Error, also when the previous line was a +CMT: header
\* and the expecting-body flag is armed.
C15_FinalResultPriority ==
    rxdone.kind = "line" =>
        /\ rxdone.line = S_OK => rxdone.sig = "Ok"
        /\ rxdone.line = S_ERROR => rxdone.sig = "Error"

\* ------------------------------------------------------------------------
\* rx_runner: lines longer than line_buf
\* ------------------------------------------------------------------------
\* C16: of a line with more than SIM800_LINE_BUFFER_SIZE bytes before its
\* terminator nothing is signalled to the Correlator and nothing is sent to
\* EVENT_CHANNEL: neither at its terminator nor by a '>' inside it.
C16_LongLineDropped ==
    /\ (rxdone.kind = "line" /\ rxdone.overflowed)
          => (rxdone.sig = "None" /\ rxdone.tried = <<>>)
    /\ rxdone.kind = "prompt" => ~rxdone.overflowed

\* ------------------------------------------------------------------------
\* AlarmStack: the window after an export, has_changes and the counter
\* ------------------------------------------------------------------------
\* C17: after at least one push, export_bits leaves counter = 1 and row 0
\* equal to the most recently pushed snapshot, in both implementations, also
\* when the window held fewer than ALARMS_STACK_DEPTH rows.
C17_ExportKeepsLatest ==
    (justExported /\ lastSnap # <<>>) =>
        /\ hstack.counter = 1
        /\ hstack.stack[FIRST_STACK_INDEX] = lastSnap
        /\ astack.counter = 1
        /\ astack.stack[FIRST_STACK_INDEX] = lastSnap

\* Some channel differs between two of the rows the counter covers.
WindowDiffers(s) ==
    \E r1, r2 \in Rows :
        /\ r1 < s.counter
        /\ r2 < s.counter
        /\ s.stack[r1] # s.stack[r2]

\* C18: has_changes() is false whenever counter <= 1, whatever the unused
\* rows hold, and with two or more rows in the window it is true exactly
\* when some channel differs among those rows; in both implementations.
C18_ChangesWithinWindow ==
    /\ has_changes(hstack) = (hstack.counter >= 2 /\ WindowDiffers(hstack))
    /\ alarms_has_changes(astack) = (astack.counter >= 2 /\ WindowDiffers(astack))

\* C19: counter stays within 0..ALARMS_STACK_DEPTH under push, export_bits
\* and import_bits, it is at least 1 once a push has happened, and a push on
\* a full window leaves it at ALARMS_STACK_DEPTH; in both implementations.
C19_CounterRange ==
    /\ hstack.counter \in 0..ALARMS_STACK_DEPTH
    /\ astack.counter \in 0..ALARMS_STACK_DEPTH
    /\ lastSnap # <<>> => (hstack.counter >= 1 /\ astack.counter >= 1)
    /\ hstack.counter = ALARMS_STACK_DEPTH =>
          \A alarms \in Snapshot : push(hstack, alarms).counter = ALARMS_STACK_DEPTH
    /\ astack.counter = ALARMS_STACK_DEPTH =>
          \A alarms \in Snapshot :
              alarms_push(astack, alarms).counter = ALARMS_STACK_DEPTH

\* A fourth push has gone into a full window, and an export after pushes
\* has been followed by a push.
C19_Witness ==
    /\ npushed = ALARMS_STACK_DEPTH + 1
    /\ hstack.counter = ALARMS_STACK_DEPTH
    /\ astack.counter = ALARMS_STACK_DEPTH
    /\ lastSnap # <<>>

\* ------------------------------------------------------------------------
\* Correlator: the result of a send
\* ------------------------------------------------------------------------
\* C20: a send returns one of Ok, Error, Prompt, Timeout, and it returns
\* Timeout exactly when rx_runner signalled no result between the send's
\* reset of RESPONSE_SIGNAL and the expiry of its timeout.
C20_TimeoutIffNoResult ==
    \A c \in Callers :
        caller[c].ret # NoRet =>
            /\ caller[c].ret.res \in {"Ok", "Error", "Prompt", "Timeout"}
            /\ (caller[c].ret.res = "Timeout") <=> ~caller[c].ret.signalled

\* ------------------------------------------------------------------------
\* Sim800::init: the initial handshake
\* ------------------------------------------------------------------------
\* init has returned false.
InitFailed(c) ==
    /\ caller[c].method = "init"
    /\ caller[c].pc = "idle"
    /\ caller[c].result = "false"

\* adc_monitor_task can push, and logic_task can take an event, go on with
\* a replay and service the watchdog whenever its own state allows it.
SystemRuns ==
    /\ ENABLED AdcSample(Snap(<<TRUE, FALSE, FALSE>>))
    /\ (lpc = AtSelect /\ events # <<>>) => ENABLED LogicEvent
    /\ lpc.at = "replay" => ENABLED ReplayDwellEnds
    /\ (lpc = AtSelect /\ events = <<>> /\ ~senderDue
          /\ watchdog_deadline = "Some" /\ wdDue) => ENABLED LogicWatchdog

\* C21: when the first command of init, AT, gets a result other than Ok,
\* init returns false having written nothing but AT, and the sampler, the
\* replay and the watchdog go on; when AT gets Ok, init writes ATE0,
\* AT+CMEE=1, AT+CLIP=1, AT+CMGF=1, AT+CNMI=2,2,0,0,0 in this order and
\* returns true whatever their results.
C21_InitHandshake ==
    \A c \in Callers :
        caller[c].method = "init" =>
            /\ Len(caller[c].log) <= Len(InitCmds)
            /\ caller[c].log = SubSeq(InitCmds, 1, Len(caller[c].log))
            /\ caller[c].first \in {"Error", "Prompt", "Timeout"} =>
                  /\ InitFailed(c)
                  /\ caller[c].log = <<"AT">>
                  /\ SystemRuns
            /\ (caller[c].first = "Ok" /\ caller[c].pc = "idle") =>
                  /\ caller[c].result = "true"
                  /\ caller[c].log = InitCmds
            /\ caller[c].pc = "idle" => caller[c].first # "None"

\* init returned false after a Prompt for AT while a replay had armed the
\* watchdog, the expiry was serviced and the sampler had pushed.
C21_Witness ==
    /\ InitFailed("A")
    /\ caller["A"].first = "Prompt"
    /\ logicdone.kind = "watchdog"
    /\ hstack.counter >= 1

\* ------------------------------------------------------------------------
\* AlarmStack: the exported code
\* ------------------------------------------------------------------------
\* '0' + the sum of bit << row over the rows the counter covers
WindowDigit(s, col) ==
    Chr(Ascii("0")
        + (IF 0 < s.counter /\ s.stack[0][col] THEN 1 ELSE 0)
        + (IF 1 < s.counter /\ s.stack[1][col] THEN 2 ELSE 0)
        + (IF 2 < s.counter /\ s.stack[2][col] THEN 4 ELSE 0))

WindowCode(s) == [i \in 1..ALARMS_MESSAGE_STRING_LENGTH |-> WindowDigit(s, i - 1)]

\* C22: the code export_bits returns has, for each channel, the character
\* '0' + the sum over the rows in the window (rows 0..counter-1) of
\* bit << row: storage rows outside the window contribute nothing, and every
\* character is in '0'..'7'; in both implementations.
C22_CodeOfWindow ==
    justExported =>
        /\ lastCode[1] = WindowCode(exportedFrom[1])
        /\ lastCode[2] = WindowCode(exportedFrom[2])
        /\ \A i \in 1..ALARMS_MESSAGE_STRING_LENGTH :
              /\ lastCode[1][i] \in {"0", "1", "2", "3", "4", "5", "6", "7"}
              /\ lastCode[2][i] \in {"0", "1", "2", "3", "4", "5", "6", "7"}

\* ------------------------------------------------------------------------
\* rx_runner: lifetime of the pending SMS header
\* ------------------------------------------------------------------------
\* C23: a pending SMS header is held exactly when the expecting-body flag is
\* armed, and the flag does not outlive the line terminated right after the
\* +CMT: header: after any terminated line that is not itself a header the
\* flag is clear, so no later line is taken as that SMS's body.
C23_HeaderLifetime ==
    /\ (pending_sms_header # NoHeader) <=> expecting_sms_body
    /\ rxdone.kind = "skipped" => ~expecting_sms_body
    /\ (rxdone.kind = "line" /\ hdrSeen = NoHeader) => ~expecting_sms_body

\* ------------------------------------------------------------------------
\* rx_runner: the prompt byte
\* ------------------------------------------------------------------------
\* rx_runner reads the byte '>' in this step.
ReadsGt == rxwire # <<>> /\ rxwire' = Tail(rxwire) /\ Head(rxwire) = ">"

\* C24: a '>' read while the line buffer is empty signals Prompt at once
\* and is not stored; a '>' read while the buffer is non-empty is stored as
\* line content and signals nothing and sends no event.
C24_PromptByte ==
    [][ReadsGt =>
          IF line_buf = <<>>
          THEN /\ signal'.res = "Prompt"
               /\ line_buf' = <<>>
               /\ events' = events
          ELSE /\ signal' = signal
               /\ events' = events
               /\ Len(line_buf) < SIM800_LINE_BUFFER_SIZE
                     => line_buf' = Append(line_buf, ">")]_vars

\* A '>' is stored in the line buffer after a Prompt was signalled for an
\* earlier '>' at the start of a line.
C24_Witness ==
    /\ line_buf = <<"A", ">">>
    /\ signal.res = "Prompt"

\* ------------------------------------------------------------------------
\* logic_task: the DTMF buffer
\* ------------------------------------------------------------------------
\* C25 as stated: at every wait point of logic_task's loop, the dwells of a
\* replay included, dtmf_buffer holds fewer than DTMF_PACKET_LENGTH digits.
C25_ShortAtEveryWait ==
    Len(dtmf_buffer) < DTMF_PACKET_LENGTH

\* What holds between the steps of logic_task
DtmfBufferInv ==
    /\ lpc.at \in {"select", "send"} => Len(dtmf_buffer) < DTMF_PACKET_LENGTH
    /\ (lpc.at = "replay" /\ lpc.src = "dtmf") =>
          /\ Len(dtmf_buffer) = DTMF_PACKET_LENGTH
          /\ lpc.matrix = get_stack_view(import_bits(AlarmStack_new, dtmf_buffer))
    /\ Len(dtmf_buffer) <= sinceEnded
    /\ (logicdone.kind = "event" /\ logicdone.event = CallEnded) => dtmf_buffer = <<>>

\* The replay of a DTMF packet returns: the watchdog is armed, the buffer
\* is cleared and logic_task is back at select3.
DtmfReplayReturns ==
    (lpc.at = "replay" /\ lpc.src = "dtmf" /\ lpc'.at # "replay") =>
        /\ lpc' = AtSelect
        /\ watchdog_deadline' = "Some"
        /\ dtmf_buffer' = <<>>

\* C25 (amended): whenever logic_task waits in select3 or in
\* CMD_CHANNEL.send, dtmf_buffer holds fewer than DTMF_PACKET_LENGTH digits;
\* the digit that completes a code starts one replay of the buffered code,
\* during which the buffer holds the packet, followed by one arming of the
\* watchdog and the clearing of the buffer; handling CallEnded empties the
\* buffer, and every buffered digit arrived after the last CallEnded.
C25_DtmfBuffer ==
    []DtmfBufferInv /\ [][DtmfReplayReturns]_vars

\* A DTMF packet is being replayed, with its digits still in the buffer,
\* after an earlier replay had armed the watchdog.
C25_Witness ==
    /\ lpc.at = "replay"
    /\ lpc.src = "dtmf"
    /\ dtmf_buffer = <<"1", "4", "1">>
    /\ watchdog_deadline = "Some"

\* ------------------------------------------------------------------------
\* logic_task: the deadlines of the sender tick
\* ------------------------------------------------------------------------
\* C26: after k - 1 serviced ticks the deadline of the k-th sender tick is
\* the first deadline (start + 60 s) plus (k - 1) periods of 60 s, whenever
\* the ticks were serviced and whatever events, replays and sends took.
C26_TickDeadlines ==
    next_sender_tick = SENDER_PERIOD_SECS + ticks * SENDER_PERIOD_SECS

\* A tick has just been serviced so late that the next deadline has passed
\* already.
C26_Witness ==
    /\ logicdone.kind = "tick"
    /\ ticks >= 1
    /\ now > next_sender_tick

\* ------------------------------------------------------------------------
\* rx_runner: the rule table
\* ------------------------------------------------------------------------
\* The events the rule table gives for a line
RuleEvents(line) ==
    IF starts_with(line, S_CLIP) THEN <<IncomingCall(QuotedField(line, 0))>>
    ELSE IF starts_with(line, S_NO_CARRIER) THEN <<CallEnded>>
    ELSE IF starts_with(line, S_CALL_READY) THEN <<SystemReady>>
    ELSE <<>>

\* The Correlator result the rule table gives for a line
RuleResult(line) ==
    IF line = S_OK THEN "Ok" ELSE IF line = S_ERROR THEN "Error" ELSE "None"

\* C27: with the expecting-body flag clear a completed non-empty line
\* produces what the rule table says and nothing else: +CLIP: exactly one
\* IncomingCall with the first quoted field, NO CARRIER one CallEnded, Call
\* Ready one SystemReady, RING and unmatched lines nothing; a Correlator
\* result only for an exact OK or ERROR.
C27_RuleTable ==
    (rxdone.kind = "line" /\ ~rxdone.armed) =>
        /\ rxdone.sig = RuleResult(rxdone.line)
        /\ rxdone.after = rxdone.before \o RuleEvents(rxdone.line)

\* Each non-empty line makes rx_runner try_send what the rule table says;
\* the event is queued when EVENT_CHANNEL has room.
RuleTableTried ==
    (rxdone.kind = "line" /\ ~rxdone.armed) =>
        /\ rxdone.sig = RuleResult(rxdone.line)
        /\ rxdone.tried = RuleEvents(rxdone.line)
        /\ rxdone.after = IF Len(rxdone.before) < EVENT_CHANNEL_CAPACITY
                          THEN rxdone.before \o RuleEvents(rxdone.line)
                          ELSE rxdone.before

\* ------------------------------------------------------------------------
\* Sim800::send_sms
\* ------------------------------------------------------------------------
\* What send_sms writes when it gets the prompt
SmsWrites == <<"AT+CMGS", "body", "0x1A">>

\* C28: send_sms writes the body and 0x1A only after AT+CMGS returned
\* Prompt; on Ok, Error or Timeout it writes nothing more and returns false;
\* it returns true exactly when the first result signalled after the Prompt
\* was cleared, within the 10 s, is Ok.
C28_SendSms ==
    \A c \in Callers :
        caller[c].method = "send_sms" =>
            /\ caller[c].log = SubSeq(SmsWrites, 1, Len(caller[c].log))
            /\ Len(caller[c].log) > 1 => caller[c].first = "Prompt"
            /\ (caller[c].pc = "idle" /\ caller[c].first # "Prompt") =>
                  (caller[c].result = "false" /\ caller[c].log = <<"AT+CMGS">>)
            /\ (caller[c].pc = "idle" /\ caller[c].first = "Prompt") =>
                  /\ caller[c].log = SmsWrites
                  /\ (caller[c].result = "true") <=> (caller[c].ret.firstsig = "Ok")

\* ------------------------------------------------------------------------
\* play_received_alarms and the arming of the watchdog
\* ------------------------------------------------------------------------
\* While a row of the replayed code is held, output i is high exactly when
\* bit `row` of (code[i] - '0') is set.
ReplayRowOnOutputs ==
    lpc.at = "replay" =>
        \A i \in Cols :
            outputs[i] <=> (BitOf(Ascii(lpc.code[i + 1]) - Ascii("0"), lpc.row) # 0)

\* A replay starts with row 0, goes on to the next row of the same code at
\* the end of each dwell, and returns only from the last row, leaving the
\* outputs as they are.
ReplayRowsInOrder ==
    /\ (lpc.at # "replay" /\ lpc'.at = "replay") => lpc'.row = 0
    /\ (lpc.at = "replay" /\ lpc'.at = "replay" /\ lpc' # lpc) =>
          (lpc'.row = lpc.row + 1 /\ lpc'.code = lpc.code)
    /\ (lpc.at = "replay" /\ lpc'.at # "replay") =>
          (lpc.row = ALARMS_STACK_DEPTH - 1 /\ outputs' = outputs)

\* Outside a replay the outputs change only when a replay starts or when
\* the watchdog branch puts them all low.
OutputsHeld ==
    (lpc.at # "replay" /\ outputs' # outputs) =>
        \/ lpc'.at = "replay"
        \/ (watchdog_deadline = "Some" /\ wdDue /\ watchdog_deadline' = "None"
              /\ outputs' = AllLow)

\* The watchdog deadline is assigned only by the step that ends the dwell of
\* the last row.
ArmedAfterLastRow ==
    (watchdog_deadline' = "Some" /\ (watchdog_deadline # "Some" \/ (wdDue /\ ~wdDue'))) =>
        (lpc.at = "replay" /\ lpc.row = ALARMS_STACK_DEPTH - 1 /\ lpc'.at # "replay")

\* C29: replaying a code of digit characters puts rows 0, 1, 2 on the
\* outputs in this order, one row per dwell, output i high exactly when bit
\* r of (c[i] - '0') is set; afterwards the outputs keep the last row until
\* the next replay or the watchdog expiry, and the watchdog deadline is set
\* only after the last row was applied.
C29_ReplayRows ==
    []ReplayRowOnOutputs
    /\ [][ReplayRowsInOrder /\ OutputsHeld /\ ArmedAfterLastRow]_vars

\* The replay of 401 has just returned: the outputs hold its last row (bit 2
\* of '4', '0', '1') and the watchdog is armed.
C29_Witness ==
    /\ logicdone.kind = "replay"
    /\ lpc = AtSelect
    /\ watchdog_deadline = "Some"
    /\ outputs = [i \in Cols |-> i = 0]

\* ------------------------------------------------------------------------
\* parse_quoted
\* ------------------------------------------------------------------------
\* The number of double quotes of a line
QuoteCount(line) == Cardinality({i \in 1..Len(line) : line[i] = Quote})

\* The text between the n-th complete pair of quotes, empty when the line
\* has no n+1 complete pairs
CompletePair(line, n) ==
    IF QuoteCount(line) >= 2 * n + 2 THEN QuotedField(line, n) ELSE <<>>

\* rx_runner has just completed a caller-id line
ClipLineDone ==
    rxdone.kind = "line" /\ ~rxdone.armed /\ starts_with(rxdone.line, S_CLIP)

\* rx_runner has just completed an SMS header line
CmtLineDone ==
    rxdone.kind = "line" /\ ~rxdone.armed /\ starts_with(rxdone.line, S_CMT)

\* C30: parse_quoted(input, n) is the text between the n-th complete pair of
\* double quotes, and the empty string when the input has no n+1 complete
\* pairs, for every input: the caller id carries field 0 and the kept SMS
\* header fields 0 and 2 of the line, read this way.
C30_ParseQuoted ==
    /\ ClipLineDone =>
          rxdone.tried = <<IncomingCall(CompletePair(rxdone.line, 0))>>
    /\ CmtLineDone =>
          pending_sms_header = <<CompletePair(rxdone.line, 0),
                                 CompletePair(rxdone.line, 2)>>

\* With the closing quote of the wanted pair present the field is the text
\* between the pair.
ParseQuotedClosedPair ==
    /\ (ClipLineDone /\ QuoteCount(rxdone.line) # 1) =>
          rxdone.tried = <<IncomingCall(CompletePair(rxdone.line, 0))>>
    /\ CmtLineDone => pending_sms_header[1] = CompletePair(rxdone.line, 0)

\* ------------------------------------------------------------------------
\* The two AlarmStack implementations side by side
\* ------------------------------------------------------------------------
\* C31: run on the same sequence of push, export_bits and import_bits
\* calls, the AlarmStack of alarms_handler.rs and the one of alarms.rs give
\* the same has_changes() value at every step and the same code at every
\* export_bits().
C31_SameObservations ==
    /\ has_changes(hstack) = alarms_has_changes(astack)
    /\ justExported => lastCode[1] = lastCode[2]

\* Up to the first push on a full window the two implementations answer
\* alike.
SameUntilFullPush ==
    (fresh /\ npushed <= ALARMS_STACK_DEPTH) =>
        /\ has_changes(hstack) = alarms_has_changes(astack)
        /\ hstack = astack

\* ------------------------------------------------------------------------
\* rx_runner and EVENT_CHANNEL
\* ------------------------------------------------------------------------
\* rx_runner has just classified a line into an event while the queue held
\* EVENT_CHANNEL_CAPACITY unread events.
SentOnFullQueue ==
    /\ rxdone.kind = "line"
    /\ rxdone.tried # <<>>
    /\ Len(rxdone.before) = EVENT_CHANNEL_CAPACITY

\* The queue is within its capacity, an event sent on a full queue leaves
\* it as it was, and after that rx_runner can take the next byte.
QueueBounded ==
    /\ Len(events) <= EVENT_CHANNEL_CAPACITY
    /\ SentOnFullQueue => rxdone.after = rxdone.before
    /\ (SentOnFullQueue /\ rxwire # <<>>) => ENABLED RxByte

\* The queue changes only by rx_runner appending the event it emitted at
\* the back or by the receiver taking the oldest event from the front.
QueueFifo ==
    events' # events =>
        \/ /\ rxdone'.kind = "line" /\ rxdone'.tried # <<>>
           /\ events' = Append(events, rxdone'.tried[1])
        \/ events # <<>> /\ events' = Tail(events)

\* C32: rx_runner never waits for room in EVENT_CHANNEL: with 4 unread
\* events a new event is discarded, the queue keeps its content and order
\* and the reader goes on with the next byte; the queue never holds more
\* than 4 events, and the events are received in the order rx_runner
\* emitted them.
C32_ReaderNeverBlocks == QueueBounded /\ [][QueueBounded' /\ QueueFifo]_vars

\* An event has just been discarded on a queue of 4 events of more than one
\* kind, with bytes still to read.
C32_Witness ==
    /\ SentOnFullQueue
    /\ events = rxdone.before
    /\ rxwire # <<>>
    /\ \E i \in 1..Len(events) : events[i] # events[1]
    /\ \A i \in 1..Len(events) : events[i] # rxdone.tried[1]

====
